---------------------------- MODULE Spec2Model ----------------------------
(***************************************************************************)
(* A model of alert2pg: the deduplication buffer (buffer/buffer.go), the   *)
(* alert record (pkg/alert/alert.go) and the persistence engine            *)
(* (storage/storage.go).                                                   *)
(*                                                                         *)
(* Time is a small integer clock `now`, in units of half a millisecond, so *)
(* that Alert.Key's truncation of StartsAt to milliseconds is visible.     *)
(***************************************************************************)
EXTENDS Integers, Sequences, FiniteSets, TLC

VARIABLES
    buffer,     \* Buffer.buffer: map key -> alert record
    now,        \* the wall clock read by time.Now()
    syncPc,     \* position of the running call of Buffer.sync: "idle", "fetched"
    fetched,    \* the alerts Buffer.sync got from Alertmanager (before the gate)
    last,       \* the last operation: its name, arguments, result, buffer before
    bRun,       \* Buffer.Run: "none", "wait" (in wg.Wait), "closed" (done closed)
    wg,         \* Buffer.wg: the WaitGroup's counter
    syncLoop,   \* goroutine Buffer.Sync: "none", "select", "sweep", "exited"
    gcLoop,     \* goroutine Buffer.Gc: "none", "select", "exited"
    bCancelled, \* Buffer.ctx is cancelled
    bDone,      \* Buffer.done is closed
    bStop,      \* Buffer.Stop: "none", "wait", "sync", "sweep", "returned"
    sRun,       \* Storage.Run: "none", "top", "pulled", "saving", "exited"
    sStop,      \* Storage.Stop: "none", "wait", "pulled", "saving", "closed"
    sCancelled, \* Storage.ctx is cancelled
    sDone,      \* Storage.done is closed
    sAlerts,    \* the local `alerts` of Storage.Run / Storage.Stop
    updates,    \* webhook requests served so far
    parallelism,\* Storage.options.parallelism
    savePc,     \* Storage.Save: "idle", "collect", "returned"
    saveBatch,  \* Save's argument
    workers,    \* Save's worker goroutines: "recv", "sendOk", "sendErr", "end"
    held,       \* the record each worker took from `intermediate`
    saveGot,    \* outcomes Save's collecting loop has received
    saveSucc,   \* Save's successAlerts
    finalUnsaved, \* the records with Loaded = false when Stop pulled
    finalTried, \* the records handed to Storage.save during Stop's cycle
    am,         \* the alerts Alertmanager reports firing now
    touched,    \* keys an Update wrote as Firing since the running sync fetched
    db,         \* the store: the rows of Alert, AlertLabel, AlertAnnotation
    sem,        \* Buffer.sem: the weight held of the gate
    gpc,        \* position of each caller of a buffer operation
    gargs,      \* the batch of each caller that has one
    gctx,       \* the request context of the webhook caller is done
    gret,       \* what the webhook handler answered: "none", "200", "500"
    mainPc,     \* main: the position of g.Run()
    actors,     \* main: each actor's execute function: "none", "running", "returned"
    chans,      \* main: which of its channels are closed
    term,       \* main: a signal is waiting in `term`
    snap        \* the records a caller got from DeepCopy, by key

bufVars == <<buffer, now, syncPc, fetched>>
lifeVars == <<bRun, wg, syncLoop, gcLoop, bCancelled, bDone, bStop>>
storVars == <<sRun, sStop, sCancelled, sDone, sAlerts, updates, finalUnsaved>>
saveVars == <<parallelism, savePc, saveBatch, workers, held, saveGot, saveSucc,
              finalTried>>
concVars == <<am, touched>>
gateVars == <<sem, gpc, gargs, gctx, gret>>
mainVars == <<mainPc, actors, chans, term>>
extraVars == <<mainVars, snap>>

vars == <<bufVars, last, lifeVars, storVars, saveVars, concVars, gateVars,
          db, extraVars>>

-----------------------------------------------------------------------------
(* Bounds of the model.                                                    *)
MaxTime == 2
MaxBatch == 2
MaxMark == 1
MaxWorkers == 2
MaxUpdates == 1
MaxConc == 2

(* Units of `now` per millisecond (StartsAt.UnixMilli() in Alert.Key).     *)
MilliUnits == 2

(* options.maxLifetime, in clock units.                                    *)
maxLifetime == 1

Firing == "firing"
Resolved == "resolved"

EmptyMap == [x \in {} |-> ""]

-----------------------------------------------------------------------------
(* Alert records.                                                          *)

Alert(fp, st, s, e, lab, ann, url, ld, ldAt) ==
    [Loaded |-> ld, LoadedAt |-> ldAt, Fingerprint |-> fp, Status |-> st,
     StartsAt |-> s, EndsAt |-> e, Labels |-> lab, Annotations |-> ann,
     GeneratorURL |-> url]

(* Alert.Key: "%s:%d" of the fingerprint and StartsAt.UnixMilli(). The     *)
(* text is determined by, and determines, the pair below.                  *)
Key(a) == <<a.Fingerprint, a.StartsAt \div MilliUnits>>

(* Alert.Equal, receiver a, argument b.                                    *)
Equal(a, b) ==
    IF \/ a.Fingerprint # b.Fingerprint
       \/ a.Status # b.Status
       \/ a.StartsAt # b.StartsAt
       \/ a.EndsAt # b.EndsAt
       \/ a.GeneratorURL # b.GeneratorURL
       \/ Cardinality(DOMAIN a.Annotations) # Cardinality(DOMAIN b.Annotations)
    THEN FALSE
    ELSE \A k \in DOMAIN a.Labels :
            k \in DOMAIN b.Labels /\ a.Labels[k] = b.Labels[k]

(* IsExpired that also takes the age t itself.                              *)
IsExpiredAtLimit(a, t, at) ==
    a.Status = Resolved /\ a.Loaded /\ at - a.LoadedAt >= t

(* Alert.IsExpired(t) at clock value `at`.                                 *)
IsExpired(a, t, at) ==
    a.Status = Resolved /\ a.Loaded /\ at - a.LoadedAt > t

(* Alert.SetResolved at clock value `at`.                                  *)
SetResolved(a, at) ==
    [a EXCEPT !.Loaded = FALSE, !.Status = Resolved, !.EndsAt = at,
              !.LoadedAt = at]

(* The content of a record: everything but the Loaded bookkeeping.         *)
Content(a) ==
    [Fingerprint |-> a.Fingerprint, Status |-> a.Status,
     StartsAt |-> a.StartsAt, EndsAt |-> a.EndsAt, Labels |-> a.Labels,
     Annotations |-> a.Annotations, GeneratorURL |-> a.GeneratorURL]

-----------------------------------------------------------------------------
(* The alerts the webhook delivers. alert.Alert.UnmarshalJSON starts every *)
(* decoded record from DefaultAlert(): Loaded = false, LoadedAt = now.     *)

L1 == [job |-> "a"]
L2 == [job |-> "b"]
N1 == [summary |-> "x"]
N2 == [summary |-> "y"]
N3 == [summary |-> "x", description |-> "z"]

Payloads ==
    { [Fingerprint |-> "f1", Status |-> Firing, StartsAt |-> 2, EndsAt |-> 0,
       Labels |-> L1, Annotations |-> N1, GeneratorURL |-> "u1"],
      [Fingerprint |-> "f1", Status |-> Resolved, StartsAt |-> 2, EndsAt |-> 1,
       Labels |-> L1, Annotations |-> N1, GeneratorURL |-> "u1"],
      [Fingerprint |-> "f1", Status |-> Firing, StartsAt |-> 2, EndsAt |-> 0,
       Labels |-> L1, Annotations |-> N2, GeneratorURL |-> "u1"],
      [Fingerprint |-> "f1", Status |-> Firing, StartsAt |-> 2, EndsAt |-> 0,
       Labels |-> L1, Annotations |-> N3, GeneratorURL |-> "u1"],
      [Fingerprint |-> "f1", Status |-> Firing, StartsAt |-> 2, EndsAt |-> 0,
       Labels |-> L2, Annotations |-> N1, GeneratorURL |-> "u1"],
      [Fingerprint |-> "f2", Status |-> Firing, StartsAt |-> 2, EndsAt |-> 0,
       Labels |-> L1, Annotations |-> N1, GeneratorURL |-> "u1"] }

(* DefaultAlert + json.Unmarshal of one payload, at clock value `at`.      *)
UnmarshalJSON(p, at) ==
    Alert(p.Fingerprint, p.Status, p.StartsAt, p.EndsAt, p.Labels,
          p.Annotations, p.GeneratorURL, FALSE, at)

Keys == { <<p.Fingerprint, p.StartsAt \div MilliUnits>> : p \in Payloads }

RECURSIVE SeqsUpTo(_, _)
SeqsUpTo(S, n) ==
    IF n = 0 THEN { <<>> }
    ELSE LET shorter == SeqsUpTo(S, n - 1)
         IN  shorter \cup { Append(q, x) : q \in shorter, x \in S }

-----------------------------------------------------------------------------
(* Buffer operations, each the critical section it runs under the gate.    *)

(* Buffer.GetUnloads: builds an empty list and returns it.                 *)
GetUnloads(buf) == <<>>

(* Buffer.DeepCopy: one value copy per stored record, in map order.        *)
DeepCopy(buf) == { buf[k] : k \in DOMAIN buf }

(* SetLoads that stores a marked record the map does not hold.             *)
SetLoadsLoopInserts(buf, alerts, i, at) ==
    LET given == { alerts[j] : j \in i..Len(alerts) }
        keys  == DOMAIN buf \cup { Key(a) : a \in given }
    IN  [k \in keys |->
            IF k \in DOMAIN buf
            THEN IF \E a \in given : Key(a) = k /\ Equal(buf[k], a)
                 THEN [buf[k] EXCEPT !.Loaded = TRUE, !.LoadedAt = at]
                 ELSE buf[k]
            ELSE [(CHOOSE a \in given : Key(a) = k) EXCEPT
                        !.Loaded = TRUE, !.LoadedAt = at]]

(* Buffer.SetLoads: the loop over the alerts given.                        *)
RECURSIVE SetLoadsLoop(_, _, _, _)
SetLoadsLoop(buf, alerts, i, at) ==
    IF i > Len(alerts) THEN buf
    ELSE LET a == alerts[i]
             k == Key(a)
         IN  IF k \in DOMAIN buf /\ Equal(buf[k], a)
             THEN SetLoadsLoop([buf EXCEPT ![k].Loaded = TRUE,
                                           ![k].LoadedAt = at],
                               alerts, i + 1, at)
             ELSE SetLoadsLoop(buf, alerts, i + 1, at)

(* UpdateOne with the flag reset on a duplicate too.                       *)
UpdateOneResetsLoaded(buf, a) ==
    LET k == Key(a)
    IN  IF Equal(a, buf[k])
        THEN [buf EXCEPT ![k].LoadedAt = a.LoadedAt, ![k].Loaded = FALSE]
        ELSE [buf EXCEPT ![k] = a]

(* Buffer.Update, the body of the loop for a record whose key is stored:   *)
(* an Equal record only moves LoadedAt, any other replaces the stored one. *)
UpdateOne(buf, a) ==
    LET k == Key(a)
    IN  IF Equal(a, buf[k])
        THEN [buf EXCEPT ![k].LoadedAt = a.LoadedAt]
        ELSE [buf EXCEPT ![k] = a]

(* Buffer.Update: the loop over the batch. b.buffer[a.Key()] of a missing  *)
(* key is a nil *Alert, and dereferencing it panics; the deferred Unlock   *)
(* runs and the records handled before stay as they were written.          *)
RECURSIVE UpdateLoop(_, _, _)
UpdateLoop(buf, alerts, i) ==
    IF i > Len(alerts) THEN [buffer |-> buf, ret |-> "nil"]
    ELSE IF Key(alerts[i]) \notin DOMAIN buf
         THEN [buffer |-> buf, ret |-> "panic"]
         ELSE UpdateLoop(UpdateOne(buf, alerts[i]), alerts, i + 1)

(* SyncSweep that also re-opens a Resolved record Alertmanager reports.    *)
SyncSweepReopens(buf, alerts, at) ==
    LET set == { Key(a) : a \in alerts }
    IN  [k \in DOMAIN buf |->
            IF k \notin set /\ buf[k].Status = Firing
            THEN SetResolved(buf[k], at)
            ELSE IF k \in set /\ buf[k].Status = Resolved
                 THEN [buf[k] EXCEPT !.Status = Firing]
                 ELSE buf[k]]

(* SyncSweep that resolves a record without clearing its Loaded flag.      *)
SyncSweepKeepsLoaded(buf, alerts, at) ==
    LET set == { Key(a) : a \in alerts }
    IN  [k \in DOMAIN buf |->
            IF k \notin set /\ buf[k].Status = Firing
            THEN [SetResolved(buf[k], at) EXCEPT !.Loaded = buf[k].Loaded]
            ELSE buf[k]]

(* Buffer.sync after the fetch: the sweep under the gate.                  *)
SyncSweep(buf, alerts, at) ==
    LET set == { Key(a) : a \in alerts }
    IN  [k \in DOMAIN buf |->
            IF k \notin set /\ buf[k].Status = Firing
            THEN SetResolved(buf[k], at)
            ELSE buf[k]]

(* Buffer.gc: delete every expired record.                                 *)
GcSweep(buf, at) ==
    LET keep == { k \in DOMAIN buf : ~IsExpired(buf[k], maxLifetime, at) }
    IN  [k \in keep |-> buf[k]]

-----------------------------------------------------------------------------
(* The store and Storage.save, one transaction per record.                 *)

(* The tables: Alert rows by id, AlertLabel rows (AlertID, Label, Value),  *)
(* AlertAnnotation rows keyed by (AlertID, Annotation), and the sequence   *)
(* that hands out Alert.id.                                                *)
EmptyDb ==
    [rows |-> <<>>, labels |-> {}, annotations |-> <<>>, nextId |-> 1]

(* The row contents of the store, the sequence left out.                   *)
Tables(d) ==
    [rows |-> d.rows, labels |-> d.labels, annotations |-> d.annotations]

(* The steps of Storage.save at which an error can come back.              *)
FailSteps ==
    {"none", "acquire", "begin", "lookup", "alert", "label", "annotation",
     "commit"}

(* A lookup that never finds the row.                                      *)
LookupIdsNone(d, a) == {}

(* SELECT id FROM Alert WHERE fingerprint = $1 AND startsAt = $2.          *)
LookupIds(d, a) ==
    { i \in DOMAIN d.rows :
        /\ d.rows[i].fingerprint = a.Fingerprint
        /\ d.rows[i].startsAt = a.StartsAt }

(* INSERT INTO Alert ... RETURNING id.                                     *)
InsertAlert(d, a) ==
    [d EXCEPT !.rows = @ @@ (d.nextId :>
                [fingerprint |-> a.Fingerprint, status |-> a.Status,
                 startsAt |-> a.StartsAt, endsAt |-> a.EndsAt,
                 generatorURL |-> a.GeneratorURL]),
              !.nextId = @ + 1]

(* An update of the found row that rewrites its label rows as well.        *)
UpdateAlertAndLabels(d, a) ==
    LET ids == { i \in DOMAIN d.rows :
                    /\ d.rows[i].fingerprint = a.Fingerprint
                    /\ d.rows[i].startsAt = a.StartsAt }
    IN  [d EXCEPT !.rows = [i \in DOMAIN @ |->
                    IF i \in ids
                    THEN [@[i] EXCEPT !.status = a.Status, !.endsAt = a.EndsAt,
                                      !.generatorURL = a.GeneratorURL]
                    ELSE @[i]],
                  !.labels = { l \in @ : l[1] \notin ids } \cup
                             { <<i, k, a.Labels[k]>> :
                                    i \in ids, k \in DOMAIN a.Labels }]

(* UPDATE Alert SET status, endsAt, generatorURL WHERE fingerprint = $4    *)
(* and startsat = $5.                                                      *)
UpdateAlert(d, a) ==
    [d EXCEPT !.rows = [i \in DOMAIN @ |->
        IF i \in LookupIds(d, a)
        THEN [@[i] EXCEPT !.status = a.Status, !.endsAt = a.EndsAt,
                          !.generatorURL = a.GeneratorURL]
        ELSE @[i]]]

(* INSERT INTO AlertLabel, once per label of the record.                   *)
InsertLabels(d, id, a) ==
    [d EXCEPT !.labels = @ \cup { <<id, k, a.Labels[k]>> : k \in DOMAIN a.Labels }]

(* INSERT INTO AlertAnnotation ... ON CONFLICT (AlertID, Annotation) DO    *)
(* UPDATE SET Value, once per annotation of the record.                    *)
UpsertAnnotations(d, id, a) ==
    [d EXCEPT !.annotations =
        [x \in DOMAIN @ \cup { <<id, k>> : k \in DOMAIN a.Annotations } |->
            IF x[1] = id /\ x[2] \in DOMAIN a.Annotations
            THEN a.Annotations[x[2]]
            ELSE @[x]]]

(* A rollback that keeps what the transaction wrote.                       *)
RollbackKeeps(d, work) == work

(* tx.Rollback: the tables are as before the transaction; a value taken    *)
(* from the sequence is not given back.                                    *)
Rollback(d, work) == [d EXCEPT !.nextId = work.nextId]

(* Storage.save(a) on the store d, with an error at step `fail` if the     *)
(* save executes that step.                                                *)
SaveTx(d, a, fail) ==
    LET found == LookupIds(d, a)
        isNew == found = {}
        id    == IF isNew THEN d.nextId ELSE CHOOSE i \in found : TRUE
        t1    == IF isNew THEN InsertAlert(d, a) ELSE UpdateAlert(d, a)
        t2    == IF isNew THEN InsertLabels(t1, id, a) ELSE t1
        t3    == UpsertAnnotations(t2, id, a)
        work  == CASE fail \in {"acquire", "begin", "lookup", "alert"} -> d
                   [] fail = "label" -> t1
                   [] fail = "annotation" -> t2
                   [] OTHER -> t3
        fails == CASE fail = "none" -> FALSE
                   [] fail = "label" -> isNew /\ DOMAIN a.Labels # {}
                   [] fail = "annotation" -> DOMAIN a.Annotations # {}
                   [] OTHER -> TRUE
    IN  IF fails
        THEN [db |-> Rollback(d, work), err |-> TRUE]
        ELSE [db |-> t3, err |-> FALSE]

-----------------------------------------------------------------------------
(* The state after construction. The repository holds no constructor and   *)
(* main.go only plans one ("read the firing alerts of the database and add *)
(* them to the Buffer"): the map starts with any of the planned preloaded  *)
(* firing records, saved or not.                                           *)

Preloaded ==
    { Alert(p.Fingerprint, p.Status, p.StartsAt, p.EndsAt, p.Labels,
            p.Annotations, p.GeneratorURL, ld, 0) :
        p \in { q \in Payloads : q.Status = Firing /\ q.Labels = L1
                                  /\ q.Annotations = N1 },
        ld \in BOOLEAN }

InitBuffers ==
    { f \in UNION { [D -> Preloaded] : D \in SUBSET Keys } :
        \A k \in DOMAIN f : Key(f[k]) = k }

(* What Alertmanager may report firing: GetFiringAlertsFromAlertmanager    *)
(* returns records of status Firing, Loaded = false.                       *)
AmAlerts == { a \in Preloaded : ~a.Loaded }

NoOp == [op |-> "none", args |-> <<>>, ret |-> "nil", pre |-> EmptyMap]

BufInit ==
    /\ buffer \in InitBuffers
    /\ now = 0
    /\ syncPc = "idle"
    /\ fetched = {}

(* Nothing is started: no Run, no Stop, no Save.                           *)
LifeInit ==
    /\ bRun = "none" /\ wg = 0 /\ syncLoop = "none" /\ gcLoop = "none"
    /\ bCancelled = FALSE /\ bDone = FALSE /\ bStop = "none"

StorInit ==
    /\ sRun = "none" /\ sStop = "none" /\ sCancelled = FALSE
    /\ sDone = FALSE /\ sAlerts = <<>> /\ updates = 0 /\ finalUnsaved = {}

SaveInit ==
    /\ savePc = "idle" /\ saveBatch = <<>> /\ workers = <<>> /\ held = <<>>
    /\ saveGot = 0 /\ saveSucc = <<>> /\ finalTried = {}

ConcInit == am = {} /\ touched = {}

(* The store holds no row.                                                 *)
TxInit == db = EmptyDb

(* The actors main adds to its run.Group, in the order it adds them.       *)
Actors == <<"signal", "webhook", "buffer", "storage">>

(* main before g.Run(): its channels are open, no actor runs.              *)
MainInit ==
    /\ mainPc = "start"
    /\ actors = [a \in {Actors[i] : i \in 1..Len(Actors)} |-> "none"]
    /\ chans = [webhookExitChan |-> FALSE, bufferExitChan |-> FALSE,
                cancel |-> FALSE]
    /\ term = FALSE

(* Nobody holds a snapshot.                                                *)
SnapInit == snap = <<>>

(* The callers of the buffer's operations.                                 *)
GateProcs == {"webhook", "copy", "marks", "sync", "gc"}

(* No operation is called, the gate is free.                               *)
GateInit ==
    /\ sem = 0
    /\ gpc = [p \in GateProcs |-> "idle"]
    /\ gargs = [p \in {"webhook", "marks"} |-> <<>>]
    /\ gctx = FALSE
    /\ gret = "none"

(* storage/options.go: defaultOptions sets only the timeout, so            *)
(* parallelism is 0 unless an option sets it.                              *)
defaultParallelism == 0

Init ==
    /\ BufInit
    /\ last = NoOp
    /\ LifeInit /\ StorInit /\ SaveInit /\ ConcInit /\ TxInit /\ GateInit
    /\ MainInit /\ SnapInit
    /\ parallelism = defaultParallelism

-----------------------------------------------------------------------------
(* The buffer's operations called one at a time, each observed in `last`.  *)

notBuf == <<lifeVars, storVars, saveVars, concVars>>

(* No operation is being observed: the caller holds no unread result.      *)
Idle == last.op = "none"

(* The caller takes the result of the operation it called.                 *)
Return ==
    /\ ~Idle
    /\ last' = NoOp
    /\ UNCHANGED <<bufVars, notBuf>>
    /\ UNCHANGED <<gateVars, db>>
    /\ UNCHANGED extraVars

Tick ==
    /\ Idle
    /\ now < MaxTime
    /\ now' = now + 1
    /\ UNCHANGED <<buffer, syncPc, fetched, last, notBuf>>
    /\ UNCHANGED <<gateVars, db>>
    /\ UNCHANGED extraVars

(* Server.postWebhook -> Buffer.Update with the decoded batch.             *)
Update ==
    /\ Idle
    /\ \E ps \in SeqsUpTo(Payloads, MaxBatch) :
        LET alerts == [i \in 1..Len(ps) |-> UnmarshalJSON(ps[i], now)]
            r == UpdateLoop(buffer, alerts, 1)
        IN  /\ buffer' = r.buffer
            /\ last' = [op |-> "Update", args |-> alerts, ret |-> r.ret,
                        pre |-> buffer]
    /\ UNCHANGED <<now, syncPc, fetched, notBuf>>
    /\ UNCHANGED <<gateVars, db>>
    /\ UNCHANGED extraVars

CallGetUnloads ==
    /\ Idle
    /\ last' = [op |-> "GetUnloads", args |-> <<>>,
                ret |-> GetUnloads(buffer), pre |-> buffer]
    /\ UNCHANGED <<bufVars, notBuf>>
    /\ UNCHANGED <<gateVars, db>>
    /\ UNCHANGED extraVars

CallDeepCopy ==
    /\ Idle
    /\ last' = [op |-> "DeepCopy", args |-> <<>>, ret |-> DeepCopy(buffer),
                pre |-> buffer]
    /\ UNCHANGED <<bufVars, notBuf>>
    /\ UNCHANGED <<gateVars, db>>
    /\ UNCHANGED extraVars

CallSetLoads ==
    /\ Idle
    /\ \E ps \in SeqsUpTo(Payloads, MaxMark) :
        LET alerts == [i \in 1..Len(ps) |-> UnmarshalJSON(ps[i], 0)]
        IN  /\ buffer' = SetLoadsLoop(buffer, alerts, 1, now)
            /\ last' = [op |-> "SetLoads", args |-> alerts, ret |-> "nil",
                        pre |-> buffer]
    /\ UNCHANGED <<now, syncPc, fetched, notBuf>>
    /\ UNCHANGED <<gateVars, db>>
    /\ UNCHANGED extraVars

(* Buffer.sync, first half: the fetch, outside the gate. The request fails *)
(* or answers with what Alertmanager reports firing at that moment.        *)
SyncFetch ==
    /\ Idle
    /\ syncPc = "idle"
    /\ \E ok \in BOOLEAN :
        IF ok
        THEN \E S \in SUBSET AmAlerts :
                /\ syncPc' = "fetched"
                /\ fetched' = S
                /\ last' = [op |-> "syncFetch", args |-> <<>>, ret |-> "nil",
                            pre |-> buffer]
        ELSE /\ UNCHANGED <<syncPc, fetched>>
             /\ last' = [op |-> "syncFetch", args |-> <<>>, ret |-> "err",
                         pre |-> buffer]
    /\ UNCHANGED <<buffer, now, notBuf>>
    /\ UNCHANGED <<gateVars, db>>
    /\ UNCHANGED extraVars

(* Buffer.sync, second half: the sweep, under the gate.                    *)
SyncSweepStep ==
    /\ Idle
    /\ syncPc = "fetched"
    /\ buffer' = SyncSweep(buffer, fetched, now)
    /\ syncPc' = "idle"
    /\ fetched' = {}
    /\ last' = [op |-> "sync", args |-> fetched, ret |-> "nil",
                pre |-> buffer]
    /\ UNCHANGED <<now, notBuf>>
    /\ UNCHANGED <<gateVars, db>>
    /\ UNCHANGED extraVars

CallGc ==
    /\ Idle
    /\ buffer' = GcSweep(buffer, now)
    /\ last' = [op |-> "gc", args |-> <<>>, ret |-> "nil", pre |-> buffer]
    /\ UNCHANGED <<now, syncPc, fetched, notBuf>>
    /\ UNCHANGED <<gateVars, db>>
    /\ UNCHANGED extraVars

Next ==
    \/ Return
    \/ Tick
    \/ Update
    \/ CallGetUnloads
    \/ CallDeepCopy
    \/ CallSetLoads
    \/ SyncFetch
    \/ SyncSweepStep
    \/ CallGc

Spec == Init /\ [][Next]_vars

-----------------------------------------------------------------------------
(* Storage.Save: the caller and its worker goroutines.                     *)

NoAlert == [Fingerprint |-> ""]

(* The goroutines blocked sending a record on `intermediate`: Save makes   *)
(* the channel and the workers range over it, and no statement sends on it *)
(* or closes it.                                                           *)
IntermediateOffers == {}

(* Storage.save: its context derives from s.ctx, so with s.ctx cancelled   *)
(* pool.Acquire fails; otherwise any step may fail, or none.               *)
SaveFailures(cancelled) == IF cancelled THEN {"acquire"} ELSE FailSteps

(* Save up to its collecting loop: the channels are made and the workers   *)
(* started, each waiting on `intermediate`.                                *)
SaveStart(batch) ==
    /\ savePc' = "collect"
    /\ saveBatch' = batch
    /\ workers' = [w \in 1..parallelism |-> "recv"]
    /\ held' = [w \in 1..parallelism |-> NoAlert]
    /\ saveGot' = 0
    /\ saveSucc' = <<>>

(* One step of a running Save. The collecting loop ends after len(alerts)  *)
(* outcomes; before that it takes an outcome a worker is sending; a worker *)
(* waiting on `intermediate` takes a record offered there and saves it.    *)
SaveStep ==
    /\ savePc = "collect"
    /\ IF saveGot = Len(saveBatch)
       THEN /\ savePc' = "returned"
            /\ UNCHANGED <<saveBatch, workers, held, saveGot, saveSucc,
                           finalTried, db>>
       ELSE IF \E w \in DOMAIN workers : workers[w] \in {"sendOk", "sendErr"}
       THEN \E w \in DOMAIN workers :
                /\ workers[w] \in {"sendOk", "sendErr"}
                /\ saveGot' = saveGot + 1
                /\ saveSucc' = IF workers[w] = "sendOk"
                               THEN Append(saveSucc, held[w]) ELSE saveSucc
                /\ workers' = [workers EXCEPT ![w] = "recv"]
                /\ UNCHANGED <<savePc, saveBatch, held, finalTried, db>>
       ELSE \E w \in DOMAIN workers, a \in IntermediateOffers :
                /\ workers[w] = "recv"
                /\ \E f \in SaveFailures(sCancelled) :
                        LET r == SaveTx(db, a, f)
                        IN  /\ db' = r.db
                            /\ workers' = [workers EXCEPT ![w] =
                                    IF r.err THEN "sendErr" ELSE "sendOk"]
                /\ held' = [held EXCEPT ![w] = a]
                /\ finalTried' = IF sStop = "saving"
                                 THEN finalTried \cup {a} ELSE finalTried
                /\ UNCHANGED <<savePc, saveBatch, saveGot, saveSucc>>
    /\ UNCHANGED <<bufVars, last, lifeVars, storVars, concVars, parallelism>>
    /\ UNCHANGED gateVars
    /\ UNCHANGED extraVars

(* Save called on its own with any batch.                                  *)
CallSave ==
    /\ savePc = "idle"
    /\ \E ps \in SeqsUpTo(Payloads, MaxBatch) :
        SaveStart([i \in 1..Len(ps) |-> UnmarshalJSON(ps[i], 0)])
    /\ UNCHANGED <<bufVars, last, lifeVars, storVars, concVars, parallelism,
                   finalTried>>
    /\ UNCHANGED <<gateVars, db>>
    /\ UNCHANGED extraVars

SaveInitAny ==
    /\ BufInit
    /\ last = NoOp
    /\ LifeInit /\ StorInit /\ SaveInit /\ ConcInit /\ TxInit /\ GateInit
    /\ MainInit /\ SnapInit
    /\ parallelism \in 0..MaxWorkers

SaveNext == CallSave \/ SaveStep

SaveSpec == SaveInitAny /\ [][SaveNext]_vars

(* The scheduler runs Save and its workers whenever one can take a step.   *)
SaveLiveSpec == SaveInitAny /\ [][SaveNext]_vars /\ WF_vars(SaveStep)

-----------------------------------------------------------------------------
(* The processes of the running program: Buffer.Run with its two loops,    *)
(* Buffer.Stop, Storage.Run, Storage.Stop and the webhook.                 *)

(* Buffer.Run: wg.Add(2), start Sync and Gc, wg.Wait(), close(done).       *)
(* Neither loop calls wg.Done.                                             *)
BufferRun ==
    /\ IF bRun = "none"
       THEN /\ wg' = wg + 2
            /\ syncLoop' = "select"
            /\ gcLoop' = "select"
            /\ bRun' = "wait"
            /\ bDone' = bDone
       ELSE /\ bRun = "wait"
            /\ wg = 0
            /\ bDone' = TRUE
            /\ bRun' = "closed"
            /\ UNCHANGED <<wg, syncLoop, gcLoop>>
    /\ UNCHANGED <<bufVars, last, bCancelled, bStop, storVars, saveVars,
                   concVars>>
    /\ UNCHANGED <<gateVars, db>>
    /\ UNCHANGED extraVars

(* Buffer.Sync, case <-ticker.C: b.sync() up to the gate.                  *)
SyncTick ==
    /\ syncLoop = "select"
    /\ syncPc = "idle"
    /\ \E ok \in BOOLEAN :
        IF ok
        THEN \E S \in SUBSET AmAlerts :
                /\ syncPc' = "fetched"
                /\ fetched' = S
                /\ syncLoop' = "sweep"
        ELSE UNCHANGED <<syncPc, fetched, syncLoop>>
    /\ UNCHANGED <<buffer, now, last, bRun, wg, gcLoop, bCancelled, bDone,
                   bStop, storVars, saveVars, concVars>>
    /\ UNCHANGED <<gateVars, db>>
    /\ UNCHANGED extraVars

(* Buffer.Sync: the rest of b.sync(), under the gate.                      *)
SyncLoopSweep ==
    /\ syncLoop = "sweep"
    /\ buffer' = SyncSweep(buffer, fetched, now)
    /\ syncPc' = "idle"
    /\ fetched' = {}
    /\ syncLoop' = "select"
    /\ UNCHANGED <<now, last, bRun, wg, gcLoop, bCancelled, bDone, bStop,
                   storVars, saveVars, concVars>>
    /\ UNCHANGED <<gateVars, db>>
    /\ UNCHANGED extraVars

(* Buffer.Sync, case <-b.ctx.Done(): return.                               *)
SyncExit ==
    /\ syncLoop = "select"
    /\ bCancelled
    /\ syncLoop' = "exited"
    /\ UNCHANGED <<bufVars, last, bRun, wg, gcLoop, bCancelled, bDone, bStop,
                   storVars, saveVars, concVars>>
    /\ UNCHANGED <<gateVars, db>>
    /\ UNCHANGED extraVars

(* Buffer.Gc, case <-ticker.C: b.gc().                                     *)
GcTick ==
    /\ gcLoop = "select"
    /\ buffer' = GcSweep(buffer, now)
    /\ UNCHANGED <<now, syncPc, fetched, last, lifeVars, storVars, saveVars,
                   concVars>>
    /\ UNCHANGED <<gateVars, db>>
    /\ UNCHANGED extraVars

(* Buffer.Gc, case <-b.ctx.Done(): return.                                 *)
GcExit ==
    /\ gcLoop = "select"
    /\ bCancelled
    /\ gcLoop' = "exited"
    /\ UNCHANGED <<bufVars, last, bRun, wg, syncLoop, bCancelled, bDone,
                   bStop, storVars, saveVars, concVars>>
    /\ UNCHANGED <<gateVars, db>>
    /\ UNCHANGED extraVars

(* Buffer.Stop, called after Run: b.cancel(), <-b.done, then b.sync().     *)
BufferStop ==
    /\ IF bStop = "none"
       THEN /\ bRun # "none"
            /\ bCancelled' = TRUE
            /\ bStop' = "wait"
            /\ UNCHANGED bufVars
       ELSE IF bStop = "wait"
       THEN /\ bDone
            /\ bStop' = "sync"
            /\ UNCHANGED <<bufVars, bCancelled>>
       ELSE IF bStop = "sync"
       THEN /\ syncPc = "idle"
            /\ \E ok \in BOOLEAN :
                IF ok
                THEN \E S \in SUBSET AmAlerts :
                        /\ syncPc' = "fetched"
                        /\ fetched' = S
                        /\ bStop' = "sweep"
                ELSE /\ bStop' = "returned"
                     /\ UNCHANGED <<syncPc, fetched>>
            /\ UNCHANGED <<buffer, now, bCancelled>>
       ELSE /\ bStop = "sweep"
            /\ buffer' = SyncSweep(buffer, fetched, now)
            /\ syncPc' = "idle"
            /\ fetched' = {}
            /\ bStop' = "returned"
            /\ UNCHANGED <<now, bCancelled>>
    /\ UNCHANGED <<last, bRun, wg, syncLoop, gcLoop, bDone, storVars, saveVars,
                   concVars>>
    /\ UNCHANGED <<gateVars, db>>
    /\ UNCHANGED extraVars

(* The records of the buffer with Loaded = false.                          *)
Unsaved(buf) == { buf[k] : k \in { x \in DOMAIN buf : ~buf[x].Loaded } }

(* Storage.Run is started.                                                 *)
StorageRun ==
    /\ sRun = "none"
    /\ sRun' = "top"
    /\ UNCHANGED <<bufVars, last, lifeVars, sStop, sCancelled, sDone, sAlerts,
                   updates, finalUnsaved, saveVars, concVars>>
    /\ UNCHANGED <<gateVars, db>>
    /\ UNCHANGED extraVars

(* Storage.Run, top of the loop: return (and close done) once s.ctx is     *)
(* cancelled, else alerts := s.buffer.GetUnloads().                        *)
RunTop ==
    /\ sRun = "top"
    /\ IF sCancelled
       THEN /\ sRun' = "exited"
            /\ sDone' = TRUE
            /\ UNCHANGED sAlerts
       ELSE /\ sRun' = "pulled"
            /\ sAlerts' = GetUnloads(buffer)
            /\ UNCHANGED sDone
    /\ UNCHANGED <<bufVars, last, lifeVars, sStop, sCancelled, updates,
                   finalUnsaved, saveVars, concVars>>
    /\ UNCHANGED <<gateVars, db>>
    /\ UNCHANGED extraVars

(* Storage.Run: successes := s.Save(alerts), up to Save's collecting loop. *)
RunSave ==
    /\ sRun = "pulled"
    /\ savePc = "idle"
    /\ SaveStart(sAlerts)
    /\ sRun' = "saving"
    /\ UNCHANGED <<bufVars, last, lifeVars, sStop, sCancelled, sDone, sAlerts,
                   updates, finalUnsaved, parallelism, finalTried, concVars>>
    /\ UNCHANGED <<gateVars, db>>
    /\ UNCHANGED extraVars

(* Storage.Run: Save has returned; s.buffer.SetLoads(successes), sleep.    *)
RunMark ==
    /\ sRun = "saving"
    /\ savePc = "returned"
    /\ buffer' = SetLoadsLoop(buffer, saveSucc, 1, now)
    /\ savePc' = "idle"
    /\ sRun' = "top"
    /\ UNCHANGED <<now, syncPc, fetched, last, lifeVars, sStop, sCancelled,
                   sDone, sAlerts, updates, finalUnsaved, parallelism,
                   saveBatch, workers, held, saveGot, saveSucc, finalTried,
                   concVars>>
    /\ UNCHANGED <<gateVars, db>>
    /\ UNCHANGED extraVars

(* Storage.Stop is called, after Run: s.cancel().                          *)
StorageStopCall ==
    /\ sStop = "none"
    /\ sRun # "none"
    /\ sCancelled' = TRUE
    /\ sStop' = "wait"
    /\ UNCHANGED <<bufVars, last, lifeVars, sRun, sDone, sAlerts, updates,
                   finalUnsaved, saveVars, concVars>>
    /\ UNCHANGED <<gateVars, db>>
    /\ UNCHANGED extraVars

(* Storage.Stop: <-s.done, then alerts := s.buffer.GetUnloads().           *)
StopPull ==
    /\ sStop = "wait"
    /\ sDone
    /\ sAlerts' = GetUnloads(buffer)
    /\ finalUnsaved' = Unsaved(buffer)
    /\ sStop' = "pulled"
    /\ UNCHANGED <<bufVars, last, lifeVars, sRun, sCancelled, sDone, updates,
                   saveVars, concVars>>
    /\ UNCHANGED <<gateVars, db>>
    /\ UNCHANGED extraVars

(* Storage.Stop: successes := s.Save(alerts), up to the collecting loop.   *)
StopSave ==
    /\ sStop = "pulled"
    /\ savePc = "idle"
    /\ SaveStart(sAlerts)
    /\ sStop' = "saving"
    /\ UNCHANGED <<bufVars, last, lifeVars, sRun, sCancelled, sDone, sAlerts,
                   updates, finalUnsaved, parallelism, finalTried, concVars>>
    /\ UNCHANGED <<gateVars, db>>
    /\ UNCHANGED extraVars

(* Storage.Stop: Save has returned; SetLoads(successes), s.pool.Close().   *)
StopMark ==
    /\ sStop = "saving"
    /\ savePc = "returned"
    /\ buffer' = SetLoadsLoop(buffer, saveSucc, 1, now)
    /\ savePc' = "idle"
    /\ sStop' = "closed"
    /\ UNCHANGED <<now, syncPc, fetched, last, lifeVars, sRun, sCancelled,
                   sDone, sAlerts, updates, finalUnsaved, parallelism,
                   saveBatch, workers, held, saveGot, saveSucc, finalTried,
                   concVars>>
    /\ UNCHANGED <<gateVars, db>>
    /\ UNCHANGED extraVars

(* Server.postWebhook: one request of one alert is decoded and handed to   *)
(* Buffer.Update.                                                          *)
PostWebhook ==
    /\ updates < MaxUpdates
    /\ \E p \in Payloads :
        buffer' = UpdateLoop(buffer, <<UnmarshalJSON(p, now)>>, 1).buffer
    /\ updates' = updates + 1
    /\ UNCHANGED <<now, syncPc, fetched, last, lifeVars, sRun, sStop,
                   sCancelled, sDone, sAlerts, finalUnsaved, saveVars,
                   concVars>>
    /\ UNCHANGED <<gateVars, db>>
    /\ UNCHANGED extraVars

LiveNext ==
    \/ BufferRun
    \/ SyncTick
    \/ SyncLoopSweep
    \/ SyncExit
    \/ GcTick
    \/ GcExit
    \/ BufferStop
    \/ StorageRun
    \/ RunTop
    \/ RunSave
    \/ RunMark
    \/ StorageStopCall
    \/ StopPull
    \/ StopSave
    \/ StopMark
    \/ SaveStep
    \/ PostWebhook

(* The Go scheduler runs every goroutine that can take a step, the tickers *)
(* keep firing, and a select whose Done case is ready again and again      *)
(* takes it in the end. Nobody is bound to call Run or Stop or to post:    *)
(* of Buffer.Run and Buffer.Stop only the steps after the call are fair.   *)
LiveFairness ==
    /\ WF_vars(bRun = "wait" /\ BufferRun)
    /\ WF_vars(SyncTick) /\ WF_vars(SyncLoopSweep) /\ SF_vars(SyncExit)
    /\ WF_vars(GcTick) /\ SF_vars(GcExit)
    /\ WF_vars(bStop # "none" /\ BufferStop)
    /\ WF_vars(RunTop) /\ WF_vars(RunSave) /\ WF_vars(RunMark)
    /\ WF_vars(StopPull) /\ WF_vars(StopSave) /\ WF_vars(StopMark)
    /\ WF_vars(SaveStep)

LiveSpec == Init /\ [][LiveNext]_vars /\ LiveFairness

-----------------------------------------------------------------------------
(* Properties of Buffer.Update, read off the last call: last.args is the   *)
(* batch, last.pre the map before the call, buffer the map after it.       *)

IsUpdate == last.op = "Update"

(* The loop reached record i: no earlier record of the batch panicked.     *)
Reached(i) == \A j \in 1..(i - 1) : Key(last.args[j]) \in DOMAIN last.pre

(* Record i is the only one of the batch with its key.                     *)
OnlyOne(i) ==
    \A j \in 1..Len(last.args) :
        j # i => Key(last.args[j]) # Key(last.args[i])

(* C1: a record of the batch whose key is not in the buffer is inserted as *)
(* it came: Update returns nil and the buffer then holds, under that key,  *)
(* a record with the incoming content and Loaded = false.                  *)
C1_UnseenInserted ==
    IsUpdate =>
        \A i \in 1..Len(last.args) :
            LET a == last.args[i]
                k == Key(a)
            IN  (k \notin DOMAIN last.pre /\ OnlyOne(i)) =>
                    /\ last.ret = "nil"
                    /\ k \in DOMAIN buffer
                    /\ Content(buffer[k]) = Content(a)
                    /\ ~buffer[k].Loaded

(* C2: GetUnloads returns exactly the stored records with Loaded = false.  *)
C2_UnloadsExact ==
    last.op = "GetUnloads" =>
        { last.ret[i] : i \in 1..Len(last.ret) }
            = { buffer[k] : k \in { x \in DOMAIN buffer : ~buffer[x].Loaded } }

(* C3: a record the loop reaches whose key is stored with identical        *)
(* content leaves one entry under the key, with Loaded and every content   *)
(* field as before and LoadedAt equal to the incoming record's LoadedAt.   *)
C3_DuplicateKeepsLoaded ==
    IsUpdate =>
        \A i \in 1..Len(last.args) :
            LET a == last.args[i]
                k == Key(a)
            IN  (/\ Reached(i) /\ OnlyOne(i)
                 /\ k \in DOMAIN last.pre
                 /\ Content(a) = Content(last.pre[k])) =>
                    /\ k \in DOMAIN buffer
                    /\ buffer[k] = [last.pre[k] EXCEPT !.LoadedAt = a.LoadedAt]

(* C3 happens: a saved record is delivered again later, unchanged.         *)
C3_Witness ==
    /\ IsUpdate
    /\ \E i \in 1..Len(last.args) :
        LET a == last.args[i]
            k == Key(a)
        IN  /\ Reached(i) /\ OnlyOne(i)
            /\ k \in DOMAIN last.pre
            /\ Content(a) = Content(last.pre[k])
            /\ last.pre[k].Loaded
            /\ a.LoadedAt # last.pre[k].LoadedAt
            /\ buffer[k].Loaded

(* C4: a record the loop reaches whose key is stored with other            *)
(* annotations leaves the stored record with the new annotations and       *)
(* Loaded = false.                                                         *)
C4_AnnotationChangeResets ==
    IsUpdate =>
        \A i \in 1..Len(last.args) :
            LET a == last.args[i]
                k == Key(a)
            IN  (/\ Reached(i) /\ OnlyOne(i)
                 /\ k \in DOMAIN last.pre
                 /\ a.Annotations # last.pre[k].Annotations) =>
                    /\ buffer[k].Annotations = a.Annotations
                    /\ ~buffer[k].Loaded

(* C10: a record the loop reaches whose key is stored with other content   *)
(* replaces the stored record: every content field is the incoming one and *)
(* Loaded = false.                                                         *)
C10_DifferentContentReplaces ==
    IsUpdate =>
        \A i \in 1..Len(last.args) :
            LET a == last.args[i]
                k == Key(a)
            IN  (/\ Reached(i) /\ OnlyOne(i)
                 /\ k \in DOMAIN last.pre
                 /\ Content(a) # Content(last.pre[k])) =>
                    /\ Content(buffer[k]) = Content(a)
                    /\ ~buffer[k].Loaded

-----------------------------------------------------------------------------
(* Webhook requests racing with one call of Buffer.sync, whose fetch runs  *)
(* before the gate is taken, while Alertmanager's firing set changes.      *)

(* Alertmanager starts or stops reporting alerts.                          *)
AmChange ==
    /\ \E S \in SUBSET AmAlerts : S # am /\ am' = S
    /\ UNCHANGED <<bufVars, last, lifeVars, storVars, saveVars, touched>>
    /\ UNCHANGED <<gateVars, db>>
    /\ UNCHANGED extraVars

(* Buffer.sync, the fetch: an error ends the call, else the answer is what *)
(* Alertmanager reports now.                                               *)
ConcFetch ==
    /\ syncPc = "idle"
    /\ \E ok \in BOOLEAN :
        IF ok
        THEN /\ syncPc' = "fetched"
             /\ fetched' = am
        ELSE /\ syncPc' = "swept"
             /\ UNCHANGED fetched
    /\ touched' = {}
    /\ UNCHANGED <<buffer, now, last, lifeVars, storVars, saveVars, am>>
    /\ UNCHANGED <<gateVars, db>>
    /\ UNCHANGED extraVars

(* Buffer.sync, the sweep under the gate, with the answer fetched before.  *)
ConcSweep ==
    /\ syncPc = "fetched"
    /\ buffer' = SyncSweep(buffer, fetched, now)
    /\ syncPc' = "swept"
    /\ UNCHANGED <<now, fetched, last, lifeVars, storVars, saveVars, concVars>>
    /\ UNCHANGED <<gateVars, db>>
    /\ UNCHANGED extraVars

(* One of the concurrent webhook requests gets the gate and runs Update.   *)
ConcUpdate ==
    /\ updates < MaxConc
    /\ \E p \in Payloads :
        LET a == UnmarshalJSON(p, now)
            r == UpdateLoop(buffer, <<a>>, 1)
        IN  /\ buffer' = r.buffer
            /\ touched' =
                 IF syncPc = "fetched" /\ r.ret = "nil"
                 THEN IF a.Status = Firing
                      THEN touched \cup {Key(a)} ELSE touched \ {Key(a)}
                 ELSE touched
    /\ updates' = updates + 1
    /\ UNCHANGED <<now, syncPc, fetched, last, lifeVars, sRun, sStop,
                   sCancelled, sDone, sAlerts, finalUnsaved, saveVars, am>>
    /\ UNCHANGED <<gateVars, db>>
    /\ UNCHANGED extraVars

ConcStart ==
    /\ BufInit
    /\ last = NoOp
    /\ LifeInit /\ StorInit /\ SaveInit /\ TxInit /\ GateInit
    /\ MainInit /\ SnapInit
    /\ parallelism = defaultParallelism
    /\ am \in SUBSET AmAlerts
    /\ touched = {}

ConcNext == AmChange \/ ConcFetch \/ ConcSweep \/ ConcUpdate

ConcSpec == ConcStart /\ [][ConcNext]_vars

(* C9: the sweep of a sync racing with Updates leaves Firing every record  *)
(* that an Update wrote as Firing during the sync and that Alertmanager    *)
(* reports firing when the sweep runs, and adds or drops no key.           *)
C9_SweepKeepsFiring ==
    [][(syncPc = "fetched" /\ syncPc' = "swept") =>
        /\ DOMAIN buffer' = DOMAIN buffer
        /\ \A k \in touched :
              (buffer[k].Status = Firing /\ k \in { Key(a) : a \in am })
                => buffer'[k].Status = Firing]_vars

-----------------------------------------------------------------------------
(* Properties of the running program.                                      *)

(* C5: Buffer.Stop, called after Run started the two loops, returns (with  *)
(* both loops exited and one more sync pass done).                         *)
C5_StopReturns ==
    (bStop # "none") ~>
        (bStop = "returned" /\ syncLoop = "exited" /\ gcLoop = "exited")

(* C6: Save ends for every batch: while it is collecting outcomes, the     *)
(* caller or one of its workers can take a step.                           *)
C6_SaveTerminates == (savePc = "collect") => ENABLED SaveStep

(* C7: with the run loop running, a stored record with Loaded = false is   *)
(* in the end marked Loaded (or replaced, or evicted, or the loop is       *)
(* stopped).                                                               *)
C7_UnsavedGetsSaved ==
    \A k \in Keys :
        (sRun \in {"top", "pulled", "saving"} /\ updates = MaxUpdates
            /\ k \in DOMAIN buffer /\ ~buffer[k].Loaded)
        ~> (sRun = "exited" \/ k \notin DOMAIN buffer \/ buffer[k].Loaded)

(* C8: Storage.Stop's last cycle runs its transactions on a live context   *)
(* and tries every record that was unsaved when it pulled.                 *)
C8_FinalCycleSaves ==
    /\ (sStop \in {"pulled", "saving"}) => ~sCancelled
    /\ (sStop = "closed") => (finalUnsaved \subseteq finalTried)

-----------------------------------------------------------------------------
(* Properties of SetLoads, sync and gc, read off the last call.            *)

(* C11: SetLoads changes a stored record (marks it Loaded) only if one of   *)
(* the records it was given has that record's key and content; a record    *)
(* that was replaced or resolved since the engine read it stays as it is.  *)
C11_MarkOnlyMatching ==
    last.op = "SetLoads" =>
        \A k \in DOMAIN buffer :
            buffer[k] # last.pre[k] =>
                \E i \in 1..Len(last.args) :
                    /\ Key(last.args[i]) = k
                    /\ Content(last.args[i]) = Content(last.pre[k])

(* C12: one sweep with the fetched set S turns every Firing record whose   *)
(* key is not in S into Resolved with EndsAt = now and Loaded = false,     *)
(* leaves every other record as it was, and adds or removes no key.        *)
C12_SweepResolvesMissing ==
    last.op = "sync" =>
        /\ DOMAIN buffer = DOMAIN last.pre
        /\ \A k \in DOMAIN last.pre :
              IF /\ last.pre[k].Status = Firing
                 /\ k \notin { Key(a) : a \in last.args }
              THEN /\ buffer[k].Status = Resolved
                   /\ buffer[k].EndsAt = now
                   /\ ~buffer[k].Loaded
              ELSE buffer[k] = last.pre[k]

(* C12 happens: of two Firing saved records, a sweep after time 0 resolved *)
(* the one Alertmanager no longer reports and kept the other.              *)
C12_Witness ==
    /\ last.op = "sync"
    /\ now > 0
    /\ \E k1, k2 \in DOMAIN last.pre :
        /\ k1 # k2
        /\ last.pre[k1].Status = Firing /\ last.pre[k1].Loaded
        /\ last.pre[k2].Status = Firing
        /\ k1 \notin { Key(a) : a \in last.args }
        /\ k2 \in { Key(a) : a \in last.args }
        /\ buffer[k1].Status = Resolved /\ ~buffer[k1].Loaded
        /\ buffer[k2] = last.pre[k2]

(* C13: gc removes exactly the records that are Resolved, Loaded and older *)
(* than maxLifetime (strictly), and leaves the others untouched.           *)
C13_GcRemovesExpiredOnly ==
    last.op = "gc" =>
        /\ DOMAIN buffer =
              { k \in DOMAIN last.pre :
                  ~(/\ last.pre[k].Status = Resolved
                    /\ last.pre[k].Loaded
                    /\ now - last.pre[k].LoadedAt > maxLifetime) }
        /\ \A k \in DOMAIN buffer : buffer[k] = last.pre[k]

(* C13 happens: gc removed a Resolved saved record one tick past the       *)
(* threshold and kept a Firing saved record of the same age.               *)
C13_Witness ==
    /\ last.op = "gc"
    /\ \E k1, k2 \in DOMAIN last.pre :
        /\ last.pre[k1].Status = Resolved /\ last.pre[k1].Loaded
        /\ now - last.pre[k1].LoadedAt = maxLifetime + 1
        /\ k1 \notin DOMAIN buffer
        /\ last.pre[k2].Status = Firing /\ last.pre[k2].Loaded
        /\ now - last.pre[k2].LoadedAt = maxLifetime + 1
        /\ k2 \in DOMAIN buffer

(* A Resolved saved record whose age is exactly maxLifetime meets gc.      *)
C13_AtLimit ==
    /\ last.op = "gc"
    /\ \E k \in DOMAIN last.pre :
        /\ last.pre[k].Status = Resolved /\ last.pre[k].Loaded
        /\ now - last.pre[k].LoadedAt = maxLifetime
        /\ k \in DOMAIN buffer

-----------------------------------------------------------------------------
(* Storage.save called for one record after another, each call with an     *)
(* error at any of its steps or at none.                                   *)

MaxSeq == 3

L3 == [job |-> "a", severity |-> "hi"]

(* The records saved: the webhook's, and one more with a second label.     *)
TxRecords ==
    { UnmarshalJSON(p, 0) : p \in Payloads } \cup
    { Alert("f1", Firing, 2, 0, L3, N1, "u1", FALSE, 0) }

CallSaveOne ==
    /\ Idle
    /\ db.nextId <= MaxSeq
    /\ \E a \in TxRecords, f \in FailSteps :
        LET r == SaveTx(db, a, f)
        IN  /\ db' = r.db
            /\ last' = [op |-> "save", args |-> <<a, f>>,
                        ret |-> IF r.err THEN "err" ELSE "nil", pre |-> db]
    /\ UNCHANGED <<bufVars, notBuf, gateVars>>
    /\ UNCHANGED extraVars

TxNext == CallSaveOne \/ Return

TxSpec == Init /\ [][TxNext]_vars

IsSave == last.op = "save"

C18_LabelsWrittenOnce ==
    IsSave =>
        LET a == last.args[1]
            ids == LookupIds(last.pre, a)
        IN  ids # {} =>
                /\ db.labels = last.pre.labels
                /\ DOMAIN db.rows = DOMAIN last.pre.rows
                /\ \A i \in DOMAIN db.rows :
                      /\ db.rows[i].fingerprint = last.pre.rows[i].fingerprint
                      /\ db.rows[i].startsAt = last.pre.rows[i].startsAt
                      /\ i \notin ids => db.rows[i] = last.pre.rows[i]
                /\ \A x \in DOMAIN last.pre.annotations :
                      x[1] \notin ids =>
                        /\ x \in DOMAIN db.annotations
                        /\ db.annotations[x] = last.pre.annotations[x]

(* C18 happens: a committed save of a stored identity came with another    *)
(* label value, and one came with another label set.                       *)
C18_Witness ==
    /\ IsSave /\ last.ret = "nil"
    /\ \E i \in LookupIds(last.pre, last.args[1]) :
        /\ { <<l[2], l[3]>> : l \in { m \in last.pre.labels : m[1] = i } }
              # { <<k, last.args[1].Labels[k]>> :
                    k \in DOMAIN last.args[1].Labels }
        /\ { m \in db.labels : m[1] = i } # {}
        /\ db.rows[i].status # last.pre.rows[i].status

(* C19: the store holds at most one Alert row per (fingerprint, startsAt); *)
(* after a committed save the annotation rows of the record hold its       *)
(* values, and saving the same record again changes no table.              *)
C19_SaveIdempotent ==
    /\ \A i, j \in DOMAIN db.rows :
          (/\ db.rows[i].fingerprint = db.rows[j].fingerprint
           /\ db.rows[i].startsAt = db.rows[j].startsAt) => i = j
    /\ (IsSave /\ last.ret = "nil") =>
          LET a == last.args[1]
          IN  /\ Tables(SaveTx(db, a, "none").db) = Tables(db)
              /\ \A i \in LookupIds(db, a), k \in DOMAIN a.Annotations :
                    /\ <<i, k>> \in DOMAIN db.annotations
                    /\ db.annotations[<<i, k>>] = a.Annotations[k]

(* C19 happens: a committed save overwrote an annotation value of a stored *)
(* record, with a second record in the store.                              *)
C19_Witness ==
    /\ IsSave /\ last.ret = "nil"
    /\ Cardinality(DOMAIN db.rows) = 2
    /\ \E i \in LookupIds(last.pre, last.args[1]) :
        \E k \in DOMAIN last.args[1].Annotations :
            /\ <<i, k>> \in DOMAIN last.pre.annotations
            /\ last.pre.annotations[<<i, k>>] # last.args[1].Annotations[k]

(* C16: Save ends for every batch and returns records of the batch only,   *)
(* no more than the batch holds, each with its row committed in the store. *)
C16_SaveReturnsCommitted ==
    (savePc = "collect") ~>
        /\ savePc = "returned"
        /\ Len(saveSucc) <= Len(saveBatch)
        /\ \A i \in 1..Len(saveSucc) :
              /\ \E j \in 1..Len(saveBatch) : saveSucc[i] = saveBatch[j]
              /\ LookupIds(db, saveSucc[i]) # {}

-----------------------------------------------------------------------------
(* The buffer's operations running concurrently, each between b.Lock and   *)
(* the deferred b.Unlock: a webhook request in Update, a caller of         *)
(* DeepCopy, the engine in SetLoads, the Sync loop in sync, a gc pass, and *)
(* calls of GetUnloads, which takes no gate.                               *)

(* The weight of Buffer.sem. The constructor is not part of the sources;   *)
(* the gate is documented as a lock of capacity one.                       *)
GateCapacity == 1

(* An Acquire that never waits.                                            *)
LockFreeAlways(s) == TRUE

(* semaphore.Weighted.Acquire(ctx, 1) can take the weight.                 *)
LockFree(s) == s + 1 <= GateCapacity

gateRest ==
    <<now, syncPc, last, lifeVars, storVars, saveVars, concVars, db, extraVars>>

(* The batches the webhook delivers here: a Resolved f1, a Firing f2.      *)
GateBatches ==
    { <<UnmarshalJSON(p, 0)>> :
        p \in { q \in Payloads : q.Status = Resolved \/ q.Fingerprint = "f2" } }

(* The records the engine marks here: the Firing f1 as preloaded.          *)
GateMarks ==
    { <<UnmarshalJSON(p, 0)>> :
        p \in { q \in Payloads : /\ q.Fingerprint = "f1" /\ q.Status = Firing
                                 /\ q.Labels = L1 /\ q.Annotations = N1 } }

(* postWebhook decodes a batch and calls b.Update(r.Context(), alerts).    *)
GateCallUpdate ==
    /\ gpc["webhook"] = "idle"
    /\ \E batch \in GateBatches :
        gargs' = [gargs EXCEPT !["webhook"] = batch]
    /\ gpc' = [gpc EXCEPT !["webhook"] = "wait"]
    /\ gctx' = FALSE
    /\ gret' = "none"
    /\ UNCHANGED <<buffer, fetched, sem, gateRest>>

(* The request's context is done while Update waits for the gate: the      *)
(* client went away or the deadline passed.                                *)
GateCtxDone ==
    /\ gpc["webhook"] = "wait"
    /\ ~gctx
    /\ gctx' = TRUE
    /\ UNCHANGED <<buffer, fetched, sem, gpc, gargs, gret, gateRest>>

(* DeepCopy, SetLoads (with the records the engine saved) or gc is called. *)
GateCall(p) ==
    /\ p \in {"copy", "marks", "gc"}
    /\ gpc[p] = "idle"
    /\ gpc' = [gpc EXCEPT ![p] = "wait"]
    /\ IF p = "marks"
       THEN \E batch \in GateMarks :
                gargs' = [gargs EXCEPT !["marks"] = batch]
       ELSE UNCHANGED gargs
    /\ UNCHANGED <<buffer, fetched, sem, gctx, gret, gateRest>>

(* Buffer.Sync, case <-ticker.C: b.sync() up to the gate; the fetch fails  *)
(* or answers.                                                             *)
GateSyncTick ==
    /\ gpc["sync"] = "idle"
    /\ \E ok \in BOOLEAN :
        IF ok
        THEN \E S \in {{}, AmAlerts} :
                /\ fetched' = S
                /\ gpc' = [gpc EXCEPT !["sync"] = "wait"]
        ELSE /\ gpc' = [gpc EXCEPT !["sync"] = "err"]
             /\ UNCHANGED fetched
    /\ UNCHANGED <<buffer, sem, gargs, gctx, gret, gateRest>>

(* A Sync loop that ends on the first error.                               *)
GateSyncLogExits ==
    /\ gpc["sync"] = "err"
    /\ gpc' = [gpc EXCEPT !["sync"] = "exited"]
    /\ UNCHANGED <<buffer, fetched, sem, gargs, gctx, gret, gateRest>>

(* Buffer.Sync: b.sync() returned an error; it is logged and the loop goes *)
(* back to its select.                                                     *)
GateSyncLog ==
    /\ gpc["sync"] = "err"
    /\ gpc' = [gpc EXCEPT !["sync"] = "idle"]
    /\ UNCHANGED <<buffer, fetched, sem, gargs, gctx, gret, gateRest>>

(* Buffer.Stop: b.cancel().                                                *)
GateCancel ==
    /\ ~bCancelled
    /\ bCancelled' = TRUE
    /\ UNCHANGED <<bufVars, last, bRun, wg, syncLoop, gcLoop, bDone, bStop,
                   storVars, saveVars, concVars, gateVars, db>>
    /\ UNCHANGED extraVars

(* Buffer.Sync, case <-b.ctx.Done(): return.                               *)
GateSyncExit ==
    /\ gpc["sync"] = "idle"
    /\ bCancelled
    /\ gpc' = [gpc EXCEPT !["sync"] = "exited"]
    /\ UNCHANGED <<buffer, fetched, sem, gargs, gctx, gret, gateRest>>

(* b.Lock succeeds: the caller holds the gate.                             *)
GateAcquire(p) ==
    /\ gpc[p] = "wait"
    /\ LockFree(sem)
    /\ sem' = sem + 1
    /\ gpc' = [gpc EXCEPT ![p] = "in"]
    /\ UNCHANGED <<buffer, fetched, gargs, gctx, gret, gateRest>>

(* An Update that unlocks on its way out of a failed Lock.                 *)
GateLockFailUnlocks ==
    /\ gpc["webhook"] = "wait"
    /\ gctx
    /\ gpc' = [gpc EXCEPT !["webhook"] = "idle"]
    /\ gret' = "500"
    /\ sem' = sem - 1
    /\ UNCHANGED <<buffer, fetched, gargs, gctx, gateRest>>

(* Update: b.Lock(ctx) returns ctx's error; Update returns it before the   *)
(* Unlock is deferred and postWebhook answers 500.                         *)
GateLockFail ==
    /\ gpc["webhook"] = "wait"
    /\ gctx
    /\ gpc' = [gpc EXCEPT !["webhook"] = "idle"]
    /\ gret' = "500"
    /\ UNCHANGED <<buffer, fetched, sem, gargs, gctx, gateRest>>

(* A critical section whose abnormal exit skips the Unlock.                *)
GateBodyPanicKeepsGate(p) ==
    /\ gpc[p] = "in"
    /\ gpc' = [gpc EXCEPT ![p] = "idle"]
    /\ sem' = IF p = "webhook" /\ UpdateLoop(buffer, gargs[p], 1).ret = "panic"
              THEN sem ELSE sem - 1
    /\ buffer' = CASE p = "webhook" -> UpdateLoop(buffer, gargs[p], 1).buffer
                   [] p = "copy" -> buffer
                   [] p = "marks" -> SetLoadsLoop(buffer, gargs[p], 1, now)
                   [] p = "sync" -> SyncSweep(buffer, fetched, now)
                   [] p = "gc" -> GcSweep(buffer, now)
    /\ fetched' = IF p = "sync" THEN {} ELSE fetched
    /\ gargs' = IF p \in DOMAIN gargs THEN [gargs EXCEPT ![p] = <<>>] ELSE gargs
    /\ gret' = IF p = "webhook"
               THEN IF UpdateLoop(buffer, gargs[p], 1).ret = "nil"
                    THEN "200" ELSE "panic"
               ELSE gret
    /\ gctx' = IF p = "webhook" THEN FALSE ELSE gctx
    /\ UNCHANGED gateRest

(* The operation's work on the map with the gate held, and the deferred    *)
(* b.Unlock.                                                               *)
GateBody(p) ==
    /\ gpc[p] = "in"
    /\ gpc' = [gpc EXCEPT ![p] = "idle"]
    /\ sem' = sem - 1
    /\ buffer' = CASE p = "webhook" -> UpdateLoop(buffer, gargs[p], 1).buffer
                   [] p = "copy" -> buffer
                   [] p = "marks" -> SetLoadsLoop(buffer, gargs[p], 1, now)
                   [] p = "sync" -> SyncSweep(buffer, fetched, now)
                   [] p = "gc" -> GcSweep(buffer, now)
    /\ fetched' = IF p = "sync" THEN {} ELSE fetched
    /\ gargs' = IF p \in DOMAIN gargs THEN [gargs EXCEPT ![p] = <<>>] ELSE gargs
    /\ gret' = IF p = "webhook"
               THEN IF UpdateLoop(buffer, gargs[p], 1).ret = "nil"
                    THEN "200" ELSE "panic"
               ELSE gret
    /\ gctx' = IF p = "webhook" THEN FALSE ELSE gctx
    /\ UNCHANGED gateRest

(* GetUnloads is called: it takes no gate and does not look at the map.    *)
GateGetUnloads ==
    /\ sAlerts' = GetUnloads(buffer)
    /\ UNCHANGED <<bufVars, last, lifeVars, sRun, sStop, sCancelled, sDone,
                   updates, finalUnsaved, saveVars, concVars, gateVars, db>>
    /\ UNCHANGED extraVars

GateNext ==
    \/ GateCallUpdate
    \/ GateCtxDone
    \/ \E p \in GateProcs : GateCall(p)
    \/ GateSyncTick
    \/ GateSyncLog
    \/ GateCancel
    \/ GateSyncExit
    \/ \E p \in GateProcs : GateAcquire(p)
    \/ GateLockFail
    \/ \E p \in GateProcs : GateBody(p)
    \/ GateGetUnloads

(* Every goroutine that can take a step takes one; a select whose Done     *)
(* case stays ready takes it in the end. Nobody is bound to call.          *)
GateFairness ==
    /\ WF_vars(GateSyncLog)
    /\ SF_vars(GateSyncExit)
    /\ WF_vars(GateLockFail)
    /\ \A p \in GateProcs : WF_vars(GateBody(p))

GateSpec == Init /\ [][GateNext]_vars /\ GateFairness

(* The callers inside their critical section.                              *)
Inside == { p \in GateProcs : gpc[p] = "in" }

C15_LockFailureRejects ==
    /\ []((gpc["webhook"] = "wait" /\ gctx) => ENABLED GateLockFail)
    /\ [][(gpc["webhook"] = "wait" /\ gpc'["webhook"] = "idle") =>
            /\ gctx
            /\ buffer' = buffer
            /\ sem' = sem
            /\ Inside' = Inside
            /\ gret' = "500"]_vars

(* C15 happens: the request was answered 500 while another operation held  *)
(* the gate, and its batch would have changed the map.                     *)
C15_Witness ==
    /\ gret = "500"
    /\ gpc["webhook"] = "idle"
    /\ Cardinality(Inside) = 1
    /\ Len(gargs["webhook"]) > 0
    /\ UpdateLoop(buffer, gargs["webhook"], 1).buffer # buffer

(* C20: a failed fetch changes neither the map nor the gate; the loop logs *)
(* the error and is back at its select, and it ends only once cancelled.   *)
C20_FetchErrorSkipsPass ==
    /\ [][(gpc["sync"] = "idle" /\ gpc'["sync"] = "err") =>
            (buffer' = buffer /\ sem' = sem /\ Inside' = Inside)]_vars
    /\ [][gpc["sync"] = "err" => gpc'["sync"] \in {"err", "idle"}]_vars
    /\ [][(gpc["sync"] # "exited" /\ gpc'["sync"] = "exited") =>
            bCancelled]_vars
    /\ [](gpc["sync"] = "idle" => ENABLED GateSyncTick)
    /\ (gpc["sync"] = "err") ~> (gpc["sync"] = "idle")

(* C20 happens: the fetch failed while the map held a Firing record that a *)
(* sweep would have resolved.                                              *)
C20_Witness ==
    /\ gpc["sync"] = "err"
    /\ ~bCancelled
    /\ SyncSweep(buffer, {}, now) # buffer

-----------------------------------------------------------------------------
(* Properties of the stored records across one operation of the buffer.    *)

(* The last operation was one of the buffer's.                             *)
IsBufferOp ==
    last.op \in {"Update", "GetUnloads", "DeepCopy", "SetLoads", "sync", "gc"}

(* The keys stored before and after the last operation.                    *)
Kept == DOMAIN last.pre \cap DOMAIN buffer

(* C22: no operation of the buffer changes the labels of a stored record.  *)
C22_LabelsFixed ==
    IsBufferOp => \A k \in Kept : buffer[k].Labels = last.pre[k].Labels

(* C25: a stored record goes from Firing to Resolved only by an Update     *)
(* that carries Resolved for its key or by a sweep whose fetched set lacks *)
(* its key, and from Resolved to Firing only by an Update that carries     *)
(* Firing for its key.                                                     *)
C25_StatusTransitions ==
    IsBufferOp =>
        \A k \in Kept :
            /\ (last.pre[k].Status = Firing /\ buffer[k].Status = Resolved) =>
                  \/ /\ last.op = "Update"
                     /\ \E i \in 1..Len(last.args) :
                          /\ Key(last.args[i]) = k
                          /\ last.args[i].Status = Resolved
                  \/ /\ last.op = "sync"
                     /\ k \notin { Key(a) : a \in last.args }
            /\ (last.pre[k].Status = Resolved /\ buffer[k].Status = Firing) =>
                  /\ last.op = "Update"
                  /\ \E i \in 1..Len(last.args) :
                        /\ Key(last.args[i]) = k
                        /\ last.args[i].Status = Firing

(* C25 happens: a sweep met a Resolved record whose key Alertmanager       *)
(* reports, next to a Firing one it resolved.                              *)
C25_Witness ==
    /\ last.op = "sync"
    /\ \E k1, k2 \in Kept :
        /\ last.pre[k1].Status = Resolved
        /\ k1 \in { Key(a) : a \in last.args }
        /\ buffer[k1].Status = Resolved
        /\ last.pre[k2].Status = Firing /\ buffer[k2].Status = Resolved

(* A Resolved record was re-opened by an Update.                           *)
C25_Reopened ==
    /\ IsUpdate
    /\ \E k \in Kept : last.pre[k].Status = Resolved /\ buffer[k].Status = Firing

(* C26: SetLoads changes only Loaded and LoadedAt of stored records and    *)
(* adds or removes none; the sweep adds or removes no key; only gc removes *)
(* a key; DeepCopy and GetUnloads change nothing.                          *)
C26_OperationFrames ==
    IsBufferOp =>
        /\ last.op = "SetLoads" =>
              /\ DOMAIN buffer = DOMAIN last.pre
              /\ \A k \in DOMAIN buffer :
                    Content(buffer[k]) = Content(last.pre[k])
        /\ last.op = "sync" => DOMAIN buffer = DOMAIN last.pre
        /\ last.op # "gc" => DOMAIN last.pre \subseteq DOMAIN buffer
        /\ last.op \in {"DeepCopy", "GetUnloads"} => buffer = last.pre

(* C26 happens: SetLoads was given a record whose key the map does not     *)
(* hold, the map holding another record.                                   *)
C26_Witness ==
    /\ last.op = "SetLoads"
    /\ Len(last.args) = 1
    /\ Key(last.args[1]) \notin DOMAIN last.pre
    /\ DOMAIN last.pre # {}

(* SetLoads marked a record that was not Loaded.                           *)
C26_Marked ==
    /\ last.op = "SetLoads"
    /\ \E k \in Kept : ~last.pre[k].Loaded /\ buffer[k].Loaded

(* C27: Equal is true exactly for records of the same content (Loaded and  *)
(* LoadedAt apart), and in both directions alike.                          *)
C27_EqualIsContentEquality ==
    IsUpdate =>
        \A i \in 1..Len(last.args) :
            LET a == last.args[i]
                k == Key(a)
            IN  k \in DOMAIN last.pre =>
                    /\ Equal(a, last.pre[k]) = (Content(a) = Content(last.pre[k]))
                    /\ Equal(a, last.pre[k]) = Equal(last.pre[k], a)

(* C29: the gate is free whenever no operation holds it; the weight goes   *)
(* down by one exactly when an operation leaves its critical section, by   *)
(* return or by panic, and a caller waiting at a free gate can take it.    *)
C29_GateNeverLeftHeld ==
    /\ [](Inside = {} => sem = 0)
    /\ [](\A p \in GateProcs :
            (gpc[p] = "wait" /\ Inside = {}) => ENABLED GateAcquire(p))
    /\ [][sem' < sem =>
            /\ sem' = sem - 1
            /\ \E p \in GateProcs : gpc[p] = "in" /\ gpc'[p] = "idle"]_vars
    /\ [][\A p \in GateProcs :
            (gpc[p] = "in" /\ gpc'[p] # "in") => sem' = sem - 1]_vars

(* C29 happens: Update panicked on an unseen key inside its critical       *)
(* section, and afterwards another caller waits at the free gate.          *)
C29_Witness ==
    /\ gret = "panic"
    /\ Inside = {}
    /\ sem = 0
    /\ \E p \in GateProcs : gpc[p] = "wait"

-----------------------------------------------------------------------------
(* A caller of DeepCopy that writes into the records it was given. A Go    *)
(* map is a reference: the Labels and Annotations of a copied record are   *)
(* the map objects of the stored record.                                   *)

copyRest ==
    <<now, syncPc, fetched, last, lifeVars, storVars, saveVars, concVars,
      gateVars, db, mainVars>>

(* The list DeepCopy returns, by key.                                      *)
SnapshotByKey(S) ==
    [k \in { Key(a) : a \in S } |-> CHOOSE a \in S : Key(a) = k]

(* m[k] = v on a Go map.                                                   *)
MapPut(m, k, v) == [x \in DOMAIN m \cup {k} |-> IF x = k THEN v ELSE m[x]]

(* The caller calls DeepCopy and keeps the result.                         *)
CopyCall ==
    /\ snap' = SnapshotByKey(DeepCopy(buffer))
    /\ UNCHANGED <<buffer, copyRest>>

(* The caller assigns to a field of a record it holds.                     *)
CopyWriteField ==
    /\ \E k \in DOMAIN snap, st \in {Firing, Resolved} :
        /\ snap[k].Status # st
        /\ snap' = [snap EXCEPT ![k].Status = st]
    /\ UNCHANGED <<buffer, copyRest>>

(* The caller writes a key of the label or annotation map of a record it   *)
(* holds: the write lands in the map object, which the stored record holds *)
(* too.                                                                    *)
CopyWriteMap ==
    /\ \E k \in DOMAIN snap, labels \in BOOLEAN, key \in {"job", "summary", "extra"} :
        IF labels
        THEN /\ snap' = [snap EXCEPT ![k].Labels = MapPut(@, key, "z")]
             /\ buffer' = [buffer EXCEPT ![k].Labels = MapPut(@, key, "z")]
        ELSE /\ snap' = [snap EXCEPT ![k].Annotations = MapPut(@, key, "z")]
             /\ buffer' = [buffer EXCEPT ![k].Annotations = MapPut(@, key, "z")]
    /\ snap' # snap
    /\ UNCHANGED copyRest

CopyNext == CopyCall \/ CopyWriteField \/ CopyWriteMap

CopySpec == Init /\ [][CopyNext]_vars

(* C28: DeepCopy hands out every stored record, and nothing the caller     *)
(* writes into the records it holds changes the buffer.                    *)
C28_SnapshotIndependent ==
    [][snap' # snap =>
        /\ buffer' = buffer
        /\ (snap = <<>> /\ DOMAIN buffer # {}) => snap' = buffer]_vars

-----------------------------------------------------------------------------
(* The reconciliation client, pkg/http: one GET on Alertmanager's          *)
(* /api/v2/alerts and the conversion of its answer.                        *)

(* What can come of the request: it cannot be built, it cannot be sent (or *)
(* times out), the answer has another status than 200, the body does not   *)
(* decode (after `decoded` of its elements did), or it decodes.            *)
Responses ==
    { [kind |-> k, code |-> 0, body |-> <<>>, decoded |-> 0] :
        k \in {"noRequest", "sendErr"} }
    \cup { [kind |-> "status", code |-> c, body |-> <<>>, decoded |-> 0] :
            c \in {404, 500} }
    \cup { [kind |-> "status", code |-> 200, body |-> b, decoded |-> Len(b)] :
            b \in SeqsUpTo(Payloads, MaxBatch) }
    \cup { [kind |-> "badJSON", code |-> 200, body |-> b, decoded |-> n] :
            b \in SeqsUpTo(Payloads, MaxBatch), n \in 0..MaxBatch }

(* http.Alert.UnmarshalJSON: Status has the tag json:"-", so whatever the  *)
(* element says, the decoded record has the status Firing.                 *)
HttpUnmarshalJSON(p) == [p EXCEPT !.Status = Firing]

(* The records built from the decoded elements, Loaded = false, LoadedAt = *)
(* now.                                                                    *)
Converted(body, n, at) ==
    [i \in 1..n |->
        LET a == HttpUnmarshalJSON(body[i])
        IN  Alert(a.Fingerprint, a.Status, a.StartsAt, a.EndsAt, a.Labels,
                  a.Annotations, a.GeneratorURL, FALSE, at)]

(* A client that returns what it decoded before the decoding failed.       *)
GetFiringPartial(resp, at) ==
    IF resp.kind = "status" /\ resp.code = 200
    THEN [alerts |-> Converted(resp.body, Len(resp.body), at), err |-> FALSE]
    ELSE IF resp.kind = "badJSON"
    THEN [alerts |-> Converted(resp.body,
                               IF resp.decoded < Len(resp.body)
                               THEN resp.decoded ELSE Len(resp.body), at),
          err |-> TRUE]
    ELSE [alerts |-> <<>>, err |-> TRUE]

(* GetFiringAlertsFromAlertmanager on the outcome resp of its request.     *)
GetFiringAlertsFromAlertmanager(resp, at) ==
    IF resp.kind \in {"noRequest", "sendErr"}
    THEN [alerts |-> <<>>, err |-> TRUE]
    ELSE IF resp.code # 200
    THEN [alerts |-> <<>>, err |-> TRUE]
    ELSE IF resp.kind = "badJSON"
    THEN [alerts |-> <<>>, err |-> TRUE]
    ELSE [alerts |-> Converted(resp.body, Len(resp.body), at), err |-> FALSE]

CallFetch ==
    /\ Idle
    /\ \E resp \in Responses :
        last' = [op |-> "fetch", args |-> resp,
                 ret |-> GetFiringAlertsFromAlertmanager(resp, now),
                 pre |-> buffer]
    /\ UNCHANGED <<bufVars, notBuf, gateVars, db, extraVars>>

FetchNext == CallFetch \/ Return \/ Tick

FetchSpec == Init /\ [][FetchNext]_vars

(* C23: every failure gives an error and an empty list; a decoded answer   *)
(* gives no error and one record per element, in order, each Firing and    *)
(* not Loaded.                                                             *)
C23_FetchAllOrNothing ==
    last.op = "fetch" =>
        IF last.args.kind = "status" /\ last.args.code = 200
        THEN /\ ~last.ret.err
             /\ Len(last.ret.alerts) = Len(last.args.body)
             /\ \A i \in 1..Len(last.ret.alerts) :
                  /\ last.ret.alerts[i].Status = Firing
                  /\ ~last.ret.alerts[i].Loaded
                  /\ last.ret.alerts[i].Fingerprint
                        = last.args.body[i].Fingerprint
                  /\ last.ret.alerts[i].StartsAt = last.args.body[i].StartsAt
        ELSE last.ret.err /\ last.ret.alerts = <<>>

(* C23 happens: an answer of two elements decoded, one of which names      *)
(* another status than firing; and a body failed after its first element.  *)
C23_Witness ==
    /\ last.op = "fetch"
    /\ ~last.ret.err
    /\ Len(last.ret.alerts) = 2
    /\ \E i \in 1..2 : last.args.body[i].Status # Firing

(* A body of two elements failed to decode after the first.                *)
C23_FailedMidBody ==
    /\ last.op = "fetch"
    /\ last.args.kind = "badJSON"
    /\ Len(last.args.body) = 2 /\ last.args.decoded = 1
    /\ last.ret.err

-----------------------------------------------------------------------------
(* The engine's save and mark against the buffer and the store together.   *)
(* The store starts with what the buffer was loaded from: main plans to    *)
(* read the store's firing alerts into the Buffer, so a record that starts *)
(* as Loaded has its rows.                                                 *)

(* The store after saving the records of S one after another.              *)
RECURSIVE StoreOf(_)
StoreOf(S) ==
    IF S = {} THEN EmptyDb
    ELSE LET a == CHOOSE x \in S : TRUE
         IN  SaveTx(StoreOf(S \ {a}), a, "none").db

StoredInit ==
    /\ BufInit
    /\ last = NoOp
    /\ LifeInit /\ StorInit /\ SaveInit /\ ConcInit /\ GateInit
    /\ MainInit /\ SnapInit
    /\ parallelism = defaultParallelism
    /\ db = StoreOf({ buffer[k] : k \in { x \in DOMAIN buffer : buffer[x].Loaded } })

(* The records the engine can hold as a batch: pulled while not Loaded,    *)
(* and only the engine marks, so the buffer's record of the key is not     *)
(* Loaded when the batch is saved.                                         *)
Pulled ==
    { a \in { UnmarshalJSON(p, 0) : p \in Payloads } :
        Key(a) \in DOMAIN buffer /\ ~buffer[Key(a)].Loaded }

(* successes := s.Save(alerts); s.buffer.SetLoads(successes), for a batch  *)
(* of one record saved by one worker.                                      *)
SaveAndSetLoads ==
    /\ Idle
    /\ db.nextId <= MaxSeq
    /\ \E a \in Pulled, f \in FailSteps :
        LET r         == SaveTx(db, a, f)
            successes == IF r.err THEN <<>> ELSE <<a>>
        IN  /\ db' = r.db
            /\ buffer' = SetLoadsLoop(buffer, successes, 1, now)
            /\ last' = [op |-> "SaveAndSetLoads", args |-> successes,
                        ret |-> IF r.err THEN "err" ELSE "nil",
                        pre |-> buffer]
    /\ UNCHANGED <<now, syncPc, fetched, notBuf, gateVars, extraVars>>

MarkNext ==
    \/ SaveAndSetLoads
    \/ Update
    \/ SyncFetch
    \/ SyncSweepStep
    \/ Return

MarkSpec == StoredInit /\ [][MarkNext]_vars

(* The store holds a row of the record's identity with its status, end     *)
(* timestamp and generator URL.                                            *)
HasRow(a) ==
    \E i \in LookupIds(db, a) :
        /\ db.rows[i].status = a.Status
        /\ db.rows[i].endsAt = a.EndsAt
        /\ db.rows[i].generatorURL = a.GeneratorURL

(* C24, first part: a Loaded record has its row in the store.              *)
C24_LoadedHasRow ==
    \A k \in DOMAIN buffer : buffer[k].Loaded => HasRow(buffer[k])

(* C24, last part: a step that changes the content of a stored record      *)
(* leaves it not Loaded.                                                   *)
C24_ChangeClearsLoaded ==
    [][\A k \in DOMAIN buffer \cap DOMAIN buffer' :
        Content(buffer'[k]) # Content(buffer[k]) => ~buffer'[k].Loaded]_vars

(* C24, middle part: a record becomes Loaded only in a SetLoads.           *)
C24_OnlySetLoadsMarks ==
    [][\A k \in DOMAIN buffer' :
        (buffer'[k].Loaded /\ (k \notin DOMAIN buffer \/ ~buffer[k].Loaded))
        => last'.op = "SaveAndSetLoads"]_vars

C24_Marked ==
    /\ last.op = "SaveAndSetLoads"
    /\ \E k \in DOMAIN buffer :
        /\ buffer[k].Loaded /\ ~last.pre[k].Loaded
        /\ \E i \in 1..Len(last.args) : Content(last.args[i]) = Content(buffer[k])

-----------------------------------------------------------------------------
(* main: the four actors of the run.Group. g.Run starts every execute      *)
(* function, waits for the first to return, calls every interrupt function *)
(* in the order the actors were added, and waits for the others.           *)
(* logger is a nil interface that is never assigned: a call through it     *)
(* may return or may end the process.                                      *)

mainRest == <<bufVars, last, lifeVars, storVars, saveVars, concVars,
              gateVars, db, snap>>

Alive == mainPc \notin {"panic", "returned"}

(* g.Run(): the execute functions start.                                   *)
MainRun ==
    /\ mainPc = "start"
    /\ mainPc' = "wait"
    /\ actors' = [a \in DOMAIN actors |-> "running"]
    /\ UNCHANGED <<chans, term, mainRest>>

(* The operating system delivers os.Interrupt or SIGTERM.                  *)
TermSignal ==
    /\ Alive
    /\ ~term
    /\ term' = TRUE
    /\ UNCHANGED <<mainPc, actors, chans, mainRest>>

(* The signal actor's execute: a signal, logged, or cancel closed.         *)
SignalExecute ==
    /\ Alive
    /\ actors["signal"] = "running"
    /\ \/ /\ term
          /\ \/ /\ actors' = [actors EXCEPT !["signal"] = "returned"]
                /\ UNCHANGED mainPc
             \/ /\ mainPc' = "panic"
                /\ UNCHANGED actors
       \/ /\ chans.cancel
          /\ actors' = [actors EXCEPT !["signal"] = "returned"]
          /\ UNCHANGED mainPc
    /\ UNCHANGED <<chans, term, mainRest>>

(* The webhook actor's execute: close(webhookExitChan); return nil.        *)
WebhookExecute ==
    /\ Alive
    /\ actors["webhook"] = "running"
    /\ chans' = [chans EXCEPT !.webhookExitChan = TRUE]
    /\ actors' = [actors EXCEPT !["webhook"] = "returned"]
    /\ UNCHANGED <<mainPc, term, mainRest>>

(* The Buffer actor's execute: close(bufferExitChan); return nil.          *)
BufferExecute ==
    /\ Alive
    /\ actors["buffer"] = "running"
    /\ chans' = [chans EXCEPT !.bufferExitChan = TRUE]
    /\ actors' = [actors EXCEPT !["buffer"] = "returned"]
    /\ UNCHANGED <<mainPc, term, mainRest>>

(* The storage actor's execute: return nil.                                *)
StorageExecute ==
    /\ Alive
    /\ actors["storage"] = "running"
    /\ actors' = [actors EXCEPT !["storage"] = "returned"]
    /\ UNCHANGED <<mainPc, chans, term, mainRest>>

(* g.Run: the first execute function has returned.                         *)
MainFirst ==
    /\ mainPc = "wait"
    /\ \E a \in DOMAIN actors : actors[a] = "returned"
    /\ mainPc' = "signal"
    /\ UNCHANGED <<actors, chans, term, mainRest>>

(* The signal actor's interrupt: close(cancel).                            *)
SignalInterrupt ==
    /\ mainPc = "signal"
    /\ chans' = [chans EXCEPT !.cancel = TRUE]
    /\ mainPc' = "webhook"
    /\ UNCHANGED <<actors, term, mainRest>>

(* The webhook actor's interrupt: one log call.                            *)
WebhookInterrupt ==
    /\ mainPc = "webhook"
    /\ mainPc' \in {"buffer", "panic"}
    /\ UNCHANGED <<actors, chans, term, mainRest>>

(* The Buffer actor's interrupt: one log call, then <-webhookExitChan.     *)
BufferInterrupt ==
    /\ mainPc = "buffer"
    /\ \/ mainPc' = "panic"
       \/ /\ chans.webhookExitChan
          /\ mainPc' = "storage"
    /\ UNCHANGED <<actors, chans, term, mainRest>>

(* The storage actor's interrupt: <-bufferExitChan.                        *)
StorageInterrupt ==
    /\ mainPc = "storage"
    /\ chans.bufferExitChan
    /\ mainPc' = "drain"
    /\ UNCHANGED <<actors, chans, term, mainRest>>

(* g.Run waits for every execute function and returns; main returns.       *)
MainReturn ==
    /\ mainPc = "drain"
    /\ \A a \in DOMAIN actors : actors[a] = "returned"
    /\ mainPc' = "returned"
    /\ UNCHANGED <<actors, chans, term, mainRest>>

MainNext ==
    \/ MainRun
    \/ TermSignal
    \/ SignalExecute
    \/ WebhookExecute
    \/ BufferExecute
    \/ StorageExecute
    \/ MainFirst
    \/ SignalInterrupt
    \/ WebhookInterrupt
    \/ BufferInterrupt
    \/ StorageInterrupt
    \/ MainReturn

MainSpec == Init /\ [][MainNext]_vars

(* C21: the Buffer's final reconciliation has completed when the storage   *)
(* actor's shutdown step begins, the final save pass has completed and the *)
(* pool is closed when the shutdown is over, and the engine's Stop never   *)
(* starts before the Buffer's Stop has returned.                           *)
C21_PipelineDrain ==
    /\ mainPc \in {"storage", "drain", "returned"} => bStop = "returned"
    /\ mainPc \in {"drain", "returned"} => sStop = "closed"
    /\ sStop # "none" => bStop = "returned"

(* main has gone through every interrupt function and returned.            *)
C21_ShutdownOver == mainPc = "returned"

=============================================================================
